---- MODULE Spec2Model ----
(***************************************************************************)
(* BotCareU ESP32 firmware (firmware/src/main.cpp): the device runtime     *)
(* loop, the dual-sensor measurement, the fever alert, the WiFi / MQTT     *)
(* connection handling and the inbound command handler.                    *)
(*                                                                         *)
(* Temperatures are integers in tenths of a degree Celsius (37.5 degC is   *)
(* 375).  The fields of DeviceStatus that the firmware writes but never    *)
(* reads (wifiConnected, mqttConnected, batteryVoltage, signalStrength,    *)
(* uptime) are not part of the state.  Every step records the I/O it       *)
(* performs in emit; a step of the environment performs none.              *)
(***************************************************************************)
EXTENDS Integers, Sequences, FiniteSets, TLC

VARIABLES
  pc,                     \* position of the single thread of control
  wifi,                   \* WiFi.status(): "Up" (WL_CONNECTED) or "Down"
  session,                \* mqttClient.connected()
  sensorsReady,           \* deviceStatus.sensorsReady
  lastReading,            \* TemperatureReading lastReading
  measurementInProgress,  \* bool measurementInProgress
  now,                    \* time since boot in ticks (millis() before wrap)
  currentTime,            \* loop()'s local currentTime
  lastMeasurement,        \* unsigned long lastMeasurement
  lastDisplayUpdate,      \* unsigned long lastDisplayUpdate
  lastHeartbeat,          \* unsigned long lastHeartbeat
  hist,                   \* history of the first MaxMeas measurements
  timedAt,                \* clock when loop() last called takeMeasurement()
  emit                    \* I/O performed by the last step, in order

vars == <<pc, wifi, session, sensorsReady, lastReading, measurementInProgress,
          now, currentTime, lastMeasurement, lastDisplayUpdate, lastHeartbeat,
          hist, timedAt, emit>>

(***************************************************************************)
(* Program constants                                                       *)
(***************************************************************************)
FEVER_THRESHOLD == 375
HIGH_FEVER_THRESHOLD == 390
CRITICAL_TEMP_THRESHOLD == 400
TEMP_MIN == 200
TEMP_MAX == 500

\* TLC's integers are 32 bits wide and cannot hold 2^32, so the clock is
\* counted in ticks of 4 ms and observed only at instants that are whole
\* ticks: unsigned long arithmetic modulo 2^32 ms is arithmetic modulo
\* 2^30 ticks, and "at least d ms later" is "at least Ticks(d) later".
Ticks(ms) == (ms + 3) \div 4
WORD == 1024 * 1024 * 1024
MEASUREMENT_INTERVAL == Ticks(60000)
DISPLAY_UPDATE_INTERVAL == Ticks(1000)
HEARTBEAT_INTERVAL == Ticks(30000)
WIFI_TIMEOUT == Ticks(10000)
MQTT_RECONNECT_DELAY == Ticks(5000)
WIFI_RECONNECT_DELAY == Ticks(5000)
LOOP_DELAY == Ticks(10)
DEBOUNCE_DELAY == Ticks(50)
STARTUP_FLASH == Ticks(6 * 200)
STARTUP_SOUND == Ticks(100)

(***************************************************************************)
(* Bounds of the model                                                     *)
(***************************************************************************)
MaxMeas == 2

(***************************************************************************)
(* Inputs                                                                  *)
(***************************************************************************)
\* the sensor values of one measurement, <<mlx.readObjectTempC(),
\* ds18b20.getTempCByIndex(0)>>: the infrared value below, at the lower end
\* of, inside and above [20, 50] degC; the contact value absent (-127.0 is
\* DEVICE_DISCONNECTED_C), at both ends of the range and on either side of
\* the fever thresholds
SensorInputs ==
  ({368} \X {-1270, 200, 369, 375, 390, 400, 500})
  \cup ({382, 200} \X {-1270, 200, 500})
  \cup ({199, 501} \X {-1270, 375})

\* the instants at which the clock is observed: every step that takes time
\* moves the clock to a later instant at least its delay away
Marks ==
  { Ticks(ms) : ms \in {0, 1300, 1312, 31300, 61300, 121300, 121312} }

Millis(t) == t % WORD

\* an uptime of nearly 2^32 ms, 61.3 s before millis() wraps to 0
Uptime == WORD - Ticks(61300)

\* the instants of the present stretch of the run: those after boot, or
\* the same ones after Uptime
Instants == IF now >= Uptime THEN { Uptime + t : t \in Marks } ELSE Marks

\* the clock values a step of at least d ms can end at (the clock stays
\* at the last instant once it is reached)
After(d) ==
  LET later == {t \in Instants : t >= now + d}
  IN  IF later = {} THEN {now} ELSE later

\* unsigned long subtraction
USub(a, b) == (a - b + WORD) % WORD

\* Due comparing the clock with the deadline last + interval
DueByDeadline(cur, last, interval) == cur >= Millis(last + interval)

\* currentTime - last >= interval
Due(cur, last, interval) ==
  USub(cur, last) >= interval


(***************************************************************************)
(* I/O events                                                              *)
(***************************************************************************)
Led(level) == [op |-> "led", level |-> level]
SensorRead(ir, ct) == [op |-> "read", infraredTemp |-> ir, contactTemp |-> ct]
Measured(reading) == [op |-> "measured", reading |-> reading]
Tone(duration, frequency) ==
  [op |-> "tone", duration |-> duration, frequency |-> frequency]
Publish(suffix, body) ==
  [op |-> "publish", topic |-> suffix, body |-> body, conn |-> session]
Subscribe(suffix) == [op |-> "subscribe", topic |-> suffix]
Connect(ok) == [op |-> "connect", ok |-> ok, link |-> wifi]
Received(topic, payload) == [op |-> "recv", topic |-> topic, payload |-> payload]
Show(text) == [op |-> "display", text |-> text]
Banner(text) == [op |-> "banner", text |-> text]
Restart == [op |-> "restart"]
Reconnect == [op |-> "reconnect"]
ButtonLow == [op |-> "button"]
Delay(d) == [op |-> "delay", ticks |-> d]
Store(reading) == [op |-> "store", reading |-> reading]
MlxBegin(found) == [op |-> "mlx.begin", found |-> found]

(***************************************************************************)
(* takeMeasurement and what it calls                                       *)
(***************************************************************************)
\* Reading with no upper limit on the infrared value
ReadingNoUpperLimit(ir, ct) ==
  [infraredTemp |-> ir,
   contactTemp |-> ct,
   isValid |-> ~(ir < TEMP_MIN),
   measurementType |->
     IF ct > TEMP_MIN /\ ct < TEMP_MAX THEN "contact"
     ELSE IF ir > TEMP_MIN /\ ir < TEMP_MAX THEN "infrared"
     ELSE "combined"]

\* Reading with the validity taken from the contact channel
ReadingValidByContact(ir, ct) ==
  [infraredTemp |-> ir,
   contactTemp |-> ct,
   isValid |-> ~(ct < TEMP_MIN \/ ct > TEMP_MAX),
   measurementType |->
     IF ct > TEMP_MIN /\ ct < TEMP_MAX THEN "contact"
     ELSE IF ir > TEMP_MIN /\ ir < TEMP_MAX THEN "infrared"
     ELSE "combined"]

\* the local TemperatureReading of takeMeasurement after validation and
\* selection (ambientTemp and timestamp take no part in any decision)
Reading(ir, ct) ==
  [infraredTemp |-> ir,
   contactTemp |-> ct,
   isValid |-> ~(ir < TEMP_MIN \/ ir > TEMP_MAX),
   measurementType |->
     IF ct > TEMP_MIN /\ ct < TEMP_MAX THEN "contact"
     ELSE IF ir > TEMP_MIN /\ ir < TEMP_MAX THEN "infrared"
     ELSE "combined"]

PrimaryTemp(reading) ==
  IF reading.measurementType = "contact"
  THEN reading.contactTemp ELSE reading.infraredTemp

\* checkFeverAlert with "high" only above HIGH_FEVER_THRESHOLD
checkFeverAlertAboveHigh(temperature) ==
  IF temperature >= FEVER_THRESHOLD
  THEN << Tone(1000, 2000), Tone(1000, 2000),
          Publish("alerts",
                  [alertType |-> "fever_detected",
                   temperature |-> temperature,
                   severity |-> IF temperature > HIGH_FEVER_THRESHOLD
                                THEN "high" ELSE "moderate"]) >>
  ELSE << >>

checkFeverAlert(temperature) ==
  IF temperature >= FEVER_THRESHOLD
  THEN << Tone(1000, 2000), Tone(1000, 2000),
          Publish("alerts",
                  [alertType |-> "fever_detected",
                   temperature |-> temperature,
                   severity |-> IF temperature >= HIGH_FEVER_THRESHOLD
                                THEN "high" ELSE "moderate"]) >>
  ELSE << >>

\* publishTemperatureData without the connection check
publishTemperatureDataUngated(reading) ==
  << Publish("temperature/reading", reading) >>

publishTemperatureData(reading) ==
  IF ~session THEN << >>
  ELSE << Publish("temperature/reading", reading) >>

publishDeviceStatus ==
  IF ~session THEN << >>
  ELSE << Publish("status",
                  [status |-> IF sensorsReady THEN "online" ELSE "error"]) >>

\* takeMeasurement returning from the invalid branch with the flag set
takeMeasurementHoldsFlagOnInvalid(ir, ct) ==
  IF measurementInProgress
  THEN [lastReading |-> lastReading,
        measurementInProgress |-> measurementInProgress,
        emit |-> << >>]
  ELSE LET reading == Reading(ir, ct)
       IN  [lastReading |-> IF reading.isValid THEN reading ELSE lastReading,
            measurementInProgress |-> ~reading.isValid,
            emit |-> << Led("HIGH"), SensorRead(ir, ct), Measured(reading) >>
                     \o (IF reading.isValid
                         THEN << Store(reading) >>
                              \o checkFeverAlert(PrimaryTemp(reading))
                              \o publishTemperatureData(reading)
                         ELSE << >>)
                     \o << Led("LOW") >>]

\* takeMeasurement publishing the reading before it checks for fever
takeMeasurementPublishFirst(ir, ct) ==
  IF measurementInProgress
  THEN [lastReading |-> lastReading,
        measurementInProgress |-> measurementInProgress,
        emit |-> << >>]
  ELSE LET reading == Reading(ir, ct)
       IN  [lastReading |-> IF reading.isValid THEN reading ELSE lastReading,
            measurementInProgress |-> FALSE,
            emit |-> << Led("HIGH"), SensorRead(ir, ct), Measured(reading) >>
                     \o (IF reading.isValid
                         THEN << Store(reading) >>
                              \o publishTemperatureData(reading)
                              \o checkFeverAlert(PrimaryTemp(reading))
                         ELSE << >>)
                     \o << Led("LOW") >>]

\* takeMeasurement without the reentrancy guard
takeMeasurementUnguarded(ir, ct) ==
  LET reading == Reading(ir, ct)
  IN  [lastReading |-> IF reading.isValid THEN reading ELSE lastReading,
       measurementInProgress |-> FALSE,
       emit |-> << Led("HIGH"), SensorRead(ir, ct), Measured(reading) >>
                \o (IF reading.isValid
                    THEN << Store(reading) >>
                         \o checkFeverAlert(PrimaryTemp(reading))
                         \o publishTemperatureData(reading)
                    ELSE << >>)
                \o << Led("LOW") >>]

\* takeMeasurement recording the reading whether valid or not
takeMeasurementRecordAll(ir, ct) ==
  IF measurementInProgress
  THEN [lastReading |-> lastReading,
        measurementInProgress |-> measurementInProgress,
        emit |-> << >>]
  ELSE LET reading == Reading(ir, ct)
       IN  [lastReading |-> reading,
            measurementInProgress |-> FALSE,
            emit |-> << Led("HIGH"), SensorRead(ir, ct), Measured(reading) >>
                     \o (IF reading.isValid
                         THEN << Store(reading) >>
                              \o checkFeverAlert(PrimaryTemp(reading))
                              \o publishTemperatureData(reading)
                         ELSE << >>)
                     \o << Led("LOW") >>]

\* the result of takeMeasurement() on the sensor values ir and ct
takeMeasurement(ir, ct) ==
  IF measurementInProgress
  THEN [lastReading |-> lastReading,
        measurementInProgress |-> measurementInProgress,
        emit |-> << >>]
  ELSE LET reading == Reading(ir, ct)
       IN  [lastReading |-> IF reading.isValid THEN reading ELSE lastReading,
            measurementInProgress |-> FALSE,
            emit |-> << Led("HIGH"), SensorRead(ir, ct), Measured(reading) >>
                     \o (IF reading.isValid
                         THEN << Store(reading) >>
                              \o checkFeverAlert(PrimaryTemp(reading))
                              \o publishTemperatureData(reading)
                         ELSE << >>)
                     \o << Led("LOW") >>]

(***************************************************************************)
(* History of the first MaxMeas measurements: for each, "invalid" when its *)
(* infrared value was out of range, else "connected" or "offline" by the   *)
(* session at the time; and the ordinals of the reading messages handed to *)
(* the client (0 for one published outside a measurement)                  *)
(***************************************************************************)
RECURSIVE ReadingsIn(_)
ReadingsIn(events) ==
  IF events = << >> THEN 0
  ELSE (IF Head(events).op = "publish"
           /\ Head(events).topic = "temperature/reading" THEN 1 ELSE 0)
       + ReadingsIn(Tail(events))

RECURSIVE Copies(_, _)
Copies(k, x) == IF k = 0 THEN << >> ELSE << x >> \o Copies(k - 1, x)

Recorded(events) ==
  IF Len(hist.taken) >= MaxMeas THEN hist
  ELSE LET n == Len(hist.taken) + 1
           m == { i \in 1..Len(events) : events[i].op = "read" }
       IN  IF m = {}
           THEN [hist EXCEPT !.tx = @ \o Copies(ReadingsIn(events), 0)]
           ELSE LET r == events[CHOOSE i \in m : TRUE]
                IN  [taken |-> Append(hist.taken,
                                      IF r.infraredTemp < TEMP_MIN
                                         \/ r.infraredTemp > TEMP_MAX
                                      THEN "invalid"
                                      ELSE IF session THEN "connected"
                                      ELSE "offline"),
                     tx |-> hist.tx \o Copies(ReadingsIn(events), n)]

(***************************************************************************)
(* Initial state: the globals as constructed, radio off, clock at 0        *)
(***************************************************************************)
InitReading ==
  [infraredTemp |-> 0, contactTemp |-> 0, isValid |-> FALSE,
   measurementType |-> ""]

Constructed(inProgress) ==
  /\ pc = "setup"
  /\ wifi = "Down"
  /\ session = FALSE
  /\ sensorsReady = FALSE
  /\ lastReading = InitReading
  /\ measurementInProgress = inProgress
  /\ now = 0
  /\ currentTime = 0
  /\ lastMeasurement = 0
  /\ lastDisplayUpdate = 0
  /\ lastHeartbeat = 0
  /\ hist = [taken |-> << >>, tx |-> << >>]
  /\ timedAt = -1

Boot == Constructed(FALSE)

Init == Boot /\ emit = << >>


(***************************************************************************)
(* setup()                                                                 *)
(***************************************************************************)
\* setupSensors without its closing assignment
setupSensorsKeepsFailure(mlxFound) ==
  IF ~mlxFound THEN FALSE ELSE TRUE

\* deviceStatus.sensorsReady after setupSensors(), mlxFound being the
\* result of mlx.begin()
setupSensors(mlxFound) ==
  LET afterMlx == IF ~mlxFound THEN FALSE ELSE sensorsReady
  IN  TRUE

\* setup() up to and including setupSensors(): the start-up LED flashes,
\* the banner and the sensor initialisation
SetupSensors ==
  /\ pc = "setup"
  /\ \E mlxFound \in BOOLEAN :
       /\ sensorsReady' = setupSensors(mlxFound)
       /\ emit' = << Banner("BotCareU Starting..."), MlxBegin(mlxFound) >>
  /\ now' \in After(STARTUP_FLASH)
  /\ pc' = "setupWiFi"
  /\ UNCHANGED <<wifi, session, lastReading, measurementInProgress,
                 currentTime, lastMeasurement, lastDisplayUpdate,
                 lastHeartbeat, hist, timedAt>>

\* setupWiFi(): WiFi.begin, then wait for the association or WIFI_TIMEOUT
SetupWiFi ==
  /\ pc = "setupWiFi"
  /\ \E associated \in BOOLEAN :
       /\ wifi' = IF associated THEN "Up" ELSE "Down"
       /\ now' \in After(IF associated THEN 0 ELSE WIFI_TIMEOUT)
  /\ emit' = << >>
  /\ pc' = "setupMQTT"
  /\ UNCHANGED <<session, sensorsReady, lastReading, measurementInProgress,
                 currentTime, lastMeasurement, lastDisplayUpdate,
                 lastHeartbeat, hist, timedAt>>

(***************************************************************************)
(* connectToMQTT(): called by setupMQTT() (pc = "setupMQTT") and by loop() *)
(* (pc = "loopMQTT"); one action per turn of its while loop                *)
(***************************************************************************)
InConnectToMQTT == pc \in {"setupMQTT", "loopMQTT"}

\* OnConnected announcing the device before it subscribes
OnConnectedStatusFirst ==
  publishDeviceStatus \o << Subscribe("config"), Subscribe("commands") >>

\* what a successful mqttClient.connect is followed by
OnConnected ==
  << Subscribe("config"), Subscribe("commands") >> \o publishDeviceStatus

\* mqttClient.connect succeeds: the broker is reachable only over the link
MqttConnected ==
  /\ InConnectToMQTT
  /\ ~session
  /\ wifi = "Up"
  /\ session' = TRUE
  /\ UNCHANGED <<pc, wifi, sensorsReady, lastReading, measurementInProgress,
                 now, currentTime, lastMeasurement, lastDisplayUpdate,
                 lastHeartbeat, timedAt>>
  /\ LET events == << Connect(TRUE) >> \o OnConnected'
     IN  /\ emit' = events
         /\ hist' = Recorded(events)

\* MqttFailed returning to its caller after the failed attempt
MqttFailedReturns ==
  /\ InConnectToMQTT
  /\ ~session
  /\ emit' = << Connect(FALSE), Delay(MQTT_RECONNECT_DELAY) >>
  /\ now' \in After(MQTT_RECONNECT_DELAY)
  /\ pc' = IF pc = "loopMQTT" THEN "mqttLoop" ELSE "loop"
  /\ UNCHANGED <<wifi, session, sensorsReady, lastReading,
                 measurementInProgress, currentTime, lastMeasurement,
                 lastDisplayUpdate, lastHeartbeat, hist, timedAt>>

\* MqttFailed giving up after the failed attempt
MqttFailedGivesUp ==
  /\ InConnectToMQTT
  /\ ~session
  /\ emit' = << Connect(FALSE) >>
  /\ pc' = "halt"
  /\ UNCHANGED <<wifi, session, sensorsReady, lastReading,
                 measurementInProgress, now, currentTime, lastMeasurement,
                 lastDisplayUpdate, lastHeartbeat, hist, timedAt>>

\* mqttClient.connect fails: delay(MQTT_RECONNECT_DELAY) and try again
MqttFailed ==
  /\ InConnectToMQTT
  /\ ~session
  /\ emit' = << Connect(FALSE), Delay(MQTT_RECONNECT_DELAY) >>
  /\ now' \in After(MQTT_RECONNECT_DELAY)
  /\ UNCHANGED <<pc, wifi, session, sensorsReady, lastReading,
                 measurementInProgress, currentTime, lastMeasurement,
                 lastDisplayUpdate, lastHeartbeat, hist, timedAt>>

\* the while loop ends; setup() then shows the ready screen and plays the
\* start-up sound
SetupDone ==
  /\ pc = "setupMQTT"
  /\ session
  /\ emit' = << Banner("BotCareU Ready!"), Tone(100, 1000), Tone(100, 1500) >>
  /\ now' \in After(STARTUP_SOUND)
  /\ pc' = "loop"
  /\ UNCHANGED <<wifi, session, sensorsReady, lastReading,
                 measurementInProgress, currentTime, lastMeasurement,
                 lastDisplayUpdate, lastHeartbeat, hist, timedAt>>

(***************************************************************************)
(* loop()                                                                  *)
(***************************************************************************)
\* currentTime = millis(); connectToWiFi() when the link is not up
LoopBegin ==
  /\ pc = "loop"
  /\ currentTime' = Millis(now)
  /\ IF wifi # "Up"
     THEN /\ \E reassociated \in BOOLEAN :
               wifi' = IF reassociated THEN "Up" ELSE "Down"
          /\ now' \in After(WIFI_RECONNECT_DELAY)
          /\ emit' = << Reconnect, Delay(WIFI_RECONNECT_DELAY) >>
     ELSE /\ emit' = << >>
          /\ UNCHANGED <<wifi, now>>
  /\ pc' = "loopMQTT"
  /\ UNCHANGED <<session, sensorsReady, lastReading, measurementInProgress,
                 lastMeasurement, lastDisplayUpdate, lastHeartbeat, hist, timedAt>>

\* mqttClient.connected() holds: connectToMQTT() is not called, or returns
LoopConnected ==
  /\ pc = "loopMQTT"
  /\ session
  /\ emit' = << >>
  /\ pc' = "mqttLoop"
  /\ UNCHANGED <<wifi, session, sensorsReady, lastReading,
                 measurementInProgress, now, currentTime, lastMeasurement,
                 lastDisplayUpdate, lastHeartbeat, hist, timedAt>>


(***************************************************************************)
(* Inbound messages                                                        *)
(***************************************************************************)
\* payloads: a JSON object with one key, or text that is not JSON
Payloads ==
  { [json |-> TRUE, key |-> "command", val |-> "measure_now"],
    [json |-> TRUE, key |-> "command", val |-> "restart"],
    [json |-> TRUE, key |-> "command", val |-> "reboot"],
    [json |-> TRUE, key |-> "measurementInterval", val |-> "30000"],
    [json |-> TRUE, key |-> "other", val |-> "x"],
    [json |-> FALSE, key |-> "", val |-> ""] }

\* the subscribed topics, by suffix
Topics == {"config", "commands"}

\* doc["command"] as a String after deserializeJson(doc, message): empty
\* when the payload is not JSON or has no such key
CommandOf(payload) ==
  IF payload.json /\ payload.key = "command" THEN payload.val ELSE ""

\* handleMQTTMessage measuring on any command that is not restart
handleMQTTMessageMeasureByDefault(topic, payload) ==
  IF topic = "commands"
  THEN IF CommandOf(payload) = "restart" THEN "restart" ELSE "measure"
  ELSE "nothing"

\* handleMQTTMessage without the restart command
handleMQTTMessageNoRestart(topic, payload) ==
  IF topic = "commands" /\ CommandOf(payload) = "measure_now"
  THEN "measure" ELSE "nothing"

\* what handleMQTTMessage does: "measure", "restart" or "nothing"
handleMQTTMessage(topic, payload) ==
  IF topic = "config" THEN "nothing"
  ELSE IF topic = "commands"
       THEN IF CommandOf(payload) = "measure_now" THEN "measure"
            ELSE IF CommandOf(payload) = "restart" THEN "restart"
            ELSE "nothing"
       ELSE "nothing"

\* ESP.restart(): the process ends and the device boots again
Rebooted(events) ==
  /\ pc' = "setup"
  /\ wifi' = "Down"
  /\ session' = FALSE
  /\ sensorsReady' = FALSE
  /\ lastReading' = InitReading
  /\ measurementInProgress' = FALSE
  /\ now' = 0
  /\ currentTime' = 0
  /\ lastMeasurement' = 0
  /\ lastDisplayUpdate' = 0
  /\ lastHeartbeat' = 0
  /\ hist' = [taken |-> << >>, tx |-> << >>]
  /\ timedAt' = -1
  /\ emit' = events

\* a call of takeMeasurement() inside a step: events before and after it
Measure(before, after) ==
  \E in \in SensorInputs :
    LET r == takeMeasurement(in[1], in[2])
    IN  /\ lastReading' = r.lastReading
        /\ measurementInProgress' = r.measurementInProgress
        /\ emit' = before \o r.emit \o after
        /\ hist' = Recorded(r.emit)

\* mqttClient.loop() with nothing to deliver (or no session)
MqttLoopIdle ==
  /\ pc = "mqttLoop"
  /\ emit' = << >>
  /\ pc' = "measure"
  /\ UNCHANGED <<wifi, session, sensorsReady, lastReading,
                 measurementInProgress, now, currentTime, lastMeasurement,
                 lastDisplayUpdate, lastHeartbeat, hist, timedAt>>

\* mqttClient.loop() delivers one inbound message to handleMQTTMessage
MqttLoopDeliver ==
  /\ pc = "mqttLoop"
  /\ session
  /\ \E topic \in Topics, payload \in Payloads :
       LET do == handleMQTTMessage(topic, payload)
           rx == << Received(topic, payload) >>
       IN  CASE do = "restart" -> Rebooted(rx \o << Restart >>)
             [] do = "measure" ->
                  /\ Measure(rx, << >>)
                  /\ pc' = "measure"
                  /\ UNCHANGED <<wifi, session, sensorsReady, now, currentTime,
                                 lastMeasurement, lastDisplayUpdate,
                                 lastHeartbeat, timedAt>>
             [] OTHER ->
                  /\ emit' = rx
                  /\ pc' = "measure"
                  /\ UNCHANGED <<wifi, session, sensorsReady, lastReading,
                                 measurementInProgress, now, currentTime,
                                 lastMeasurement, lastDisplayUpdate,
                                 lastHeartbeat, hist, timedAt>>

(***************************************************************************)
(* The timers of loop()                                                    *)
(***************************************************************************)
MeasurementTimer ==
  /\ pc = "measure"
  /\ IF Due(currentTime, lastMeasurement, MEASUREMENT_INTERVAL)
     THEN /\ Measure(<< >>, << >>)
          /\ lastMeasurement' = currentTime
          /\ timedAt' = now
     ELSE /\ emit' = << >>
          /\ UNCHANGED <<lastReading, measurementInProgress, hist,
                         lastMeasurement, timedAt>>
  /\ pc' = "display"
  /\ UNCHANGED <<wifi, session, sensorsReady, now, currentTime,
                 lastDisplayUpdate, lastHeartbeat>>

\* what updateDisplay() draws
updateDisplay ==
  Show([wifi |-> IF wifi = "Up" THEN "OK" ELSE "FAIL",
        mqtt |-> IF session THEN "OK" ELSE "FAIL",
        readout |->
          IF lastReading.isValid
          THEN [temp |-> PrimaryTemp(lastReading),
                text |-> IF PrimaryTemp(lastReading) >= FEVER_THRESHOLD
                         THEN "FEVER DETECTED!" ELSE "Normal"]
          ELSE [temp |-> 0, text |-> "No readings"]])

DisplayTimer ==
  /\ pc = "display"
  /\ IF Due(currentTime, lastDisplayUpdate, DISPLAY_UPDATE_INTERVAL)
     THEN /\ emit' = << updateDisplay >>
          /\ lastDisplayUpdate' = currentTime
     ELSE /\ emit' = << >>
          /\ UNCHANGED lastDisplayUpdate
  /\ pc' = "heartbeat"
  /\ UNCHANGED <<wifi, session, sensorsReady, lastReading,
                 measurementInProgress, now, currentTime, lastMeasurement,
                 lastHeartbeat, hist, timedAt>>

HeartbeatTimer ==
  /\ pc = "heartbeat"
  /\ IF Due(currentTime, lastHeartbeat, HEARTBEAT_INTERVAL)
     THEN /\ emit' = publishDeviceStatus
          /\ hist' = Recorded(publishDeviceStatus)
          /\ lastHeartbeat' = currentTime
     ELSE /\ emit' = << >>
          /\ UNCHANGED <<lastHeartbeat, hist>>
  /\ pc' = "button"
  /\ UNCHANGED <<wifi, session, sensorsReady, lastReading,
                 measurementInProgress, now, currentTime, lastMeasurement,
                 lastDisplayUpdate, timedAt>>

\* the button is not pressed: delay(10) ends the iteration
ButtonIdle ==
  /\ pc = "button"
  /\ emit' = << >>
  /\ now' \in After(LOOP_DELAY)
  /\ pc' = "loop"
  /\ UNCHANGED <<wifi, session, sensorsReady, lastReading,
                 measurementInProgress, currentTime, lastMeasurement,
                 lastDisplayUpdate, lastHeartbeat, hist, timedAt>>

\* the button is low after the debounce delay: handleButtonPress(), the
\* wait for the release, delay(10)
ButtonPressed ==
  /\ pc = "button"
  /\ Measure(<< ButtonLow >>, << Tone(100, 1000) >>)
  /\ now' \in After(DEBOUNCE_DELAY + LOOP_DELAY)
  /\ pc' = "loop"
  /\ UNCHANGED <<wifi, session, sensorsReady, currentTime, lastMeasurement,
                 lastDisplayUpdate, lastHeartbeat, timedAt>>

(***************************************************************************)
(* The environment: the access point and the broker                        *)
(***************************************************************************)
\* the radio is started by WiFi.begin in setupWiFi()
RadioOn == pc \notin {"setup", "setupWiFi"}

LinkLost ==
  /\ RadioOn
  /\ wifi = "Up"
  /\ wifi' = "Down"
  /\ emit' = << >>
  /\ UNCHANGED <<pc, session, sensorsReady, lastReading,
                 measurementInProgress, now, currentTime, lastMeasurement,
                 lastDisplayUpdate, lastHeartbeat, hist, timedAt>>

\* the WiFi stack re-associates by itself
LinkRestored ==
  /\ RadioOn
  /\ wifi = "Down"
  /\ wifi' = "Up"
  /\ emit' = << >>
  /\ UNCHANGED <<pc, session, sensorsReady, lastReading,
                 measurementInProgress, now, currentTime, lastMeasurement,
                 lastDisplayUpdate, lastHeartbeat, hist, timedAt>>

SessionLost ==
  /\ session
  /\ session' = FALSE
  /\ emit' = << >>
  /\ UNCHANGED <<pc, wifi, sensorsReady, lastReading,
                 measurementInProgress, now, currentTime, lastMeasurement,
                 lastDisplayUpdate, lastHeartbeat, hist, timedAt>>

Next ==
  \/ SetupSensors
  \/ SetupWiFi
  \/ MqttConnected
  \/ MqttFailed
  \/ SetupDone
  \/ LoopBegin
  \/ LoopConnected
  \/ MqttLoopIdle
  \/ MqttLoopDeliver
  \/ MeasurementTimer
  \/ DisplayTimer
  \/ HeartbeatTimer
  \/ ButtonIdle
  \/ ButtonPressed
  \/ LinkLost
  \/ LinkRestored
  \/ SessionLost

Spec == Init /\ [][Next]_vars

\* takeMeasurement()'s guard is a function of measurementInProgress, which
\* no step of the single thread of control leaves set: the same program
\* entered with the flag in either state, the set flag being a measurement
\* that was begun and has not completed
InitReentry ==
  /\ \E inProgress \in BOOLEAN : Constructed(inProgress)
  /\ emit = << >>

SpecReentry == InitReentry /\ [][Next]_vars

\* The device after Uptime of running, in the iteration of loop() that began
\* at Uptime with the display refresh and the heartbeat due: it is about to
\* look at the button.  The timed measurement last ran in this iteration or
\* 58.688 s before it; no measurement so far passed validation.
InitWrap ==
  /\ pc = "button"
  /\ wifi = "Up"
  /\ session = TRUE
  /\ sensorsReady = TRUE
  /\ lastReading = InitReading
  /\ measurementInProgress = FALSE
  /\ now = Uptime
  /\ currentTime = Millis(Uptime)
  /\ \E ago \in {0, Ticks(58688)} :
       /\ lastMeasurement = Millis(Uptime - ago)
       /\ timedAt = Uptime - ago
  /\ lastDisplayUpdate = Millis(Uptime)
  /\ lastHeartbeat = Millis(Uptime)
  /\ hist = [taken |-> Copies(MaxMeas, "invalid"), tx |-> << >>]
  /\ emit = publishDeviceStatus

SpecWrap == InitWrap /\ [][Next]_vars

\* the steps of the thread of control, as opposed to those of the access
\* point and the broker
Program ==
  \/ SetupSensors
  \/ SetupWiFi
  \/ MqttConnected
  \/ MqttFailed
  \/ SetupDone
  \/ LoopBegin
  \/ LoopConnected
  \/ MqttLoopIdle
  \/ MqttLoopDeliver
  \/ MeasurementTimer
  \/ DisplayTimer
  \/ HeartbeatTimer
  \/ ButtonIdle
  \/ ButtonPressed

\* the thread of control never stops: setup() runs to its end, loop() is
\* called again whenever it returns and the while loop of connectToMQTT()
\* goes round until its condition fails; and a broker that accepts a
\* handshake again and again is not refused for ever
SpecLive ==
  /\ Init
  /\ [][Next]_vars
  /\ WF_vars(Program)
  /\ SF_vars(MqttConnected)

\* the broker alone: a handshake that could be accepted again and again is
\* accepted in the end; nothing is assumed of the thread of control
SpecRetry ==
  /\ Init
  /\ [][Next]_vars
  /\ SF_vars(MqttConnected)


(***************************************************************************)
(* Reading the I/O of a step                                               *)
(***************************************************************************)
At(events, op) == { i \in 1..Len(events) : events[i].op = op }

Published(events, suffix) ==
  { i \in At(events, "publish") : events[i].topic = suffix }

AlertTones(events) ==
  { i \in At(events, "tone") :
      events[i].duration = 1000 /\ events[i].frequency = 2000 }

OutOfRange(t) == t < TEMP_MIN \/ t > TEMP_MAX

(***************************************************************************)
(* C1: whenever a publish operation runs while the broker session is not   *)
(* connected, nothing is handed to the MQTT client: every message of every *)
(* kind (reading, status, alert) that a step hands over is handed over     *)
(* with the session connected.                                             *)
(***************************************************************************)
C1_NothingHandedOverWhileDisconnected ==
  \A i \in At(emit, "publish") : emit[i].conn

(***************************************************************************)
(* C2: a broker handshake (mqttClient.connect) is attempted only while the *)
(* network link is up.                                                     *)
(***************************************************************************)
C2_HandshakeOnlyWhileLinkUp ==
  \A i \in At(emit, "connect") : emit[i].link = "Up"

(***************************************************************************)
(* C3: a measurement whose infrared value is outside [20, 50] degC has     *)
(* isValid = false, publishes no reading message and does not reach the     *)
(* fever check (no alert message, no alert tone), whatever the contact      *)
(* value is.                                                               *)
(***************************************************************************)
C3_InfraredOutOfRangeIsDropped ==
  \A i \in At(emit, "read") :
    OutOfRange(emit[i].infraredTemp) =>
      /\ At(emit, "measured") # {}
      /\ \A j \in At(emit, "measured") :
           /\ emit[j].reading.infraredTemp = emit[i].infraredTemp
           /\ emit[j].reading.isValid = FALSE
      /\ Published(emit, "temperature/reading") = {}
      /\ Published(emit, "alerts") = {}
      /\ AlertTones(emit) = {}

\* an out-of-range infrared value next to an in-range contact value at the
\* fever threshold has been measured
C3_Witness ==
  \E i \in At(emit, "read") :
    /\ OutOfRange(emit[i].infraredTemp)
    /\ emit[i].contactTemp >= FEVER_THRESHOLD
    /\ ~OutOfRange(emit[i].contactTemp)

(***************************************************************************)
(* C4: a measurement with both the contact value and the infrared value in *)
(* the closed range [20, 50] degC has measurementType "contact" and its    *)
(* primary temperature is the contact value.                               *)
(***************************************************************************)
C4_ContactInClosedRangeIsPrimary ==
  \A j \in At(emit, "measured") :
    LET r == emit[j].reading
    IN  (~OutOfRange(r.contactTemp) /\ ~OutOfRange(r.infraredTemp)) =>
          /\ r.measurementType = "contact"
          /\ PrimaryTemp(r) = r.contactTemp

(***************************************************************************)
(* C5: for the primary temperature t of a valid reading, t < 37.5 hands    *)
(* over no alert message, 37.5 <= t < 39.0 exactly one with severity       *)
(* "moderate", t >= 39.0 exactly one with severity "high"; no other        *)
(* severity is ever used.                                                  *)
(***************************************************************************)
C5_SeverityByThreshold ==
  /\ \A i \in Published(emit, "alerts") :
       emit[i].body.severity \in {"moderate", "high"}
  /\ \A j \in At(emit, "measured") :
       LET r == emit[j].reading
           t == IF r.measurementType = "contact"
                THEN r.contactTemp ELSE r.infraredTemp
           alerts == Published(emit, "alerts")
       IN  r.isValid =>
             /\ t < 375 => alerts = {}
             /\ t >= 375 =>
                  /\ Cardinality(alerts) = 1
                  /\ \A i \in alerts :
                       /\ emit[i].body.temperature = t
                       /\ emit[i].body.severity =
                            IF t >= 390 THEN "high" ELSE "moderate"

\* a reading at 40.0 degC has raised an alert
C5_Witness ==
  \E i \in Published(emit, "alerts") :
    emit[i].body.temperature >= CRITICAL_TEMP_THRESHOLD


(***************************************************************************)
(* C6: a measurement request (timer, button or measure_now command) made   *)
(* while measurementInProgress is set is a no-op: lastReading, the flag    *)
(* and the history are unchanged, no sensor is read and nothing is         *)
(* published; the request is not served later (while the flag stays set no *)
(* measurement is ever recorded); and a step holds at most one measurement *)
(* and at most one reading message, the message only with a measurement.   *)
(***************************************************************************)
MeasureNowReceived(events) ==
  \E i \in At(events, "recv") :
    /\ events[i].topic = "commands"
    /\ events[i].payload.json
    /\ events[i].payload.key = "command"
    /\ events[i].payload.val = "measure_now"

C6_RequestInProgressIsNoOp ==
  /\ [][ ( /\ measurementInProgress
           /\ \/ /\ pc = "measure"
                 /\ pc' = "display"
                 /\ Due(currentTime, lastMeasurement, MEASUREMENT_INTERVAL)
              \/ At(emit', "button") # {}
              \/ MeasureNowReceived(emit') )
         => /\ lastReading' = lastReading
            /\ measurementInProgress'
            /\ hist' = hist
            /\ At(emit', "read") = {}
            /\ At(emit', "measured") = {}
            /\ At(emit', "publish") = {} ]_vars
  /\ [](measurementInProgress =>
          /\ hist.taken = << >>
          /\ lastReading = InitReading
          /\ At(emit, "read") = {})
  /\ [](/\ Cardinality(At(emit, "read")) <= 1
        /\ Cardinality(Published(emit, "temperature/reading"))
             <= Cardinality(At(emit, "read")))

\* the button has been pressed with the flag set
C6_Witness ==
  /\ measurementInProgress
  /\ At(emit, "button") # {}

(***************************************************************************)
(* C7: the reading messages handed to the client are exactly those of the  *)
(* valid measurements taken while the session was connected, each once and *)
(* in measurement order: a valid reading produced while disconnected is    *)
(* sent neither then nor after a later connection.                         *)
(***************************************************************************)
C7_AtMostOnceNoBackfill ==
  /\ \A k \in 1..(Len(hist.tx) - 1) : hist.tx[k] < hist.tx[k + 1]
  /\ { hist.tx[k] : k \in 1..Len(hist.tx) }
       = { i \in 1..Len(hist.taken) : hist.taken[i] = "connected" }

\* a valid reading was produced offline, the session came back and the next
\* reading was published alone
C7_Witness ==
  /\ Len(hist.taken) >= 2
  /\ hist.taken[1] = "offline"
  /\ hist.taken[2] = "connected"
  /\ hist.tx = << 2 >>

(***************************************************************************)
(* C8: every transition of the session to connected, at boot and on every  *)
(* reconnection, happens inside connectToMQTT and is followed, before any  *)
(* other outbound message and before connectToMQTT returns, by the two     *)
(* subscriptions (config, commands) and then one status message "online";  *)
(* nothing is subscribed anywhere else.                                    *)
(***************************************************************************)
C8_SubscribeAndAnnounceOnConnect ==
  /\ [][ (~session /\ session')
         => /\ pc \in {"setupMQTT", "loopMQTT"}
            /\ pc' = pc
            /\ emit' = << [op |-> "connect", ok |-> TRUE, link |-> "Up"],
                          [op |-> "subscribe", topic |-> "config"],
                          [op |-> "subscribe", topic |-> "commands"],
                          [op |-> "publish", topic |-> "status",
                           body |-> [status |-> "online"],
                           conn |-> TRUE] >> ]_vars
  /\ [](At(emit, "subscribe") # {} => At(emit, "connect") # {})

\* the session has been re-established from loop()
C8_Witness ==
  /\ pc = "loopMQTT"
  /\ session
  /\ \E i \in At(emit, "connect") : emit[i].ok

(***************************************************************************)
(* C9: the step that receives the command "restart" on the commands topic  *)
(* ends in the boot state with all runtime state reinitialised, having     *)
(* measured nothing and published nothing.                                 *)
(***************************************************************************)
RestartReceived(events) ==
  \E i \in At(events, "recv") :
    /\ events[i].topic = "commands"
    /\ events[i].payload.json
    /\ events[i].payload.key = "command"
    /\ events[i].payload.val = "restart"

C9_RestartRebootsAtOnce ==
  [][ RestartReceived(emit')
      => /\ Boot'
         /\ At(emit', "publish") = {}
         /\ At(emit', "read") = {}
         /\ At(emit', "display") = {}
         /\ At(emit', "restart") # {} ]_vars

\* a restart command has just been handled
C9_Witness ==
  /\ RestartReceived(emit)
  /\ pc = "setup"

(***************************************************************************)
(* C10 as claimed: after a measurement that fails validation, lastReading  *)
(* is that new reading, marked invalid.                                    *)
(***************************************************************************)
C10_InvalidReadingIsRecorded ==
  \A j \in At(emit, "measured") :
    ~emit[j].reading.isValid => lastReading = emit[j].reading

(***************************************************************************)
(* C10 amended: a measurement that fails validation leaves lastReading     *)
(* unchanged, and the display shows the temperature of lastReading         *)
(* whenever lastReading is valid, so the previous valid reading stays on   *)
(* the display.                                                            *)
(***************************************************************************)
C10_InvalidReadingIsNotRecorded ==
  /\ [][ (\E j \in At(emit', "measured") : ~emit'[j].reading.isValid)
         => lastReading' = lastReading ]_vars
  /\ [](\A i \in At(emit, "display") :
          emit[i].text.readout =
            IF lastReading.isValid
            THEN [temp |-> IF lastReading.measurementType = "contact"
                           THEN lastReading.contactTemp
                           ELSE lastReading.infraredTemp,
                  text |-> IF (IF lastReading.measurementType = "contact"
                               THEN lastReading.contactTemp
                               ELSE lastReading.infraredTemp) >= 375
                           THEN "FEVER DETECTED!" ELSE "Normal"]
            ELSE [temp |-> 0, text |-> "No readings"])

\* an invalid measurement has completed and the earlier valid reading is
\* still the last reading
C10_Witness ==
  /\ lastReading.isValid
  /\ \E j \in At(emit, "measured") : ~emit[j].reading.isValid

(***************************************************************************)
(* C11: while the link is down the link attempt (connectToWiFi) keeps      *)
(* recurring until the link is up: from every state with the link down,    *)
(* the link comes up or a further link attempt is made, each attempt       *)
(* followed by the 5 s delay; there is no state with the link down after   *)
(* which no link attempt is made.                                          *)
(***************************************************************************)
C11_LinkRetryRecurs ==
  /\ [](wifi = "Down" => <>(wifi = "Up" \/ At(emit, "reconnect") # {}))
  /\ [](\A i \in At(emit, "reconnect") :
          /\ i < Len(emit)
          /\ emit[i + 1] = [op |-> "delay", ticks |-> Ticks(5000)])

(***************************************************************************)
(* C12: the session retry is unbounded.  A failed broker handshake leaves  *)
(* the device in connectToMQTT, disconnected, and is followed by the 5 s   *)
(* delay; while the device is there every step it takes is a further       *)
(* handshake and one is always possible (no attempt cap, no give-up        *)
(* state); and with a broker that does not refuse for ever, the session    *)
(* becomes connected unless the link goes down for good.                   *)
(***************************************************************************)
HandshakeFailed(events) ==
  \E i \in At(events, "connect") : ~events[i].ok

C12_SessionRetryUnbounded ==
  /\ [][ HandshakeFailed(emit')
         => /\ pc \in {"setupMQTT", "loopMQTT"}
            /\ pc' = pc
            /\ ~session'
            /\ Len(emit') = 2
            /\ emit'[2] = [op |-> "delay", ticks |-> Ticks(5000)] ]_vars
  /\ [][ (pc \in {"setupMQTT", "loopMQTT"} /\ ~session /\ emit' # << >>)
         => At(emit', "connect") # {} ]_vars
  /\ []((pc \in {"setupMQTT", "loopMQTT"} /\ ~session) => ENABLED MqttFailed)
  /\ ((pc \in {"setupMQTT", "loopMQTT"} /\ ~session)
        ~> (session \/ [](wifi # "Up")))

\* a handshake has failed with the link up and the device is still in
\* connectToMQTT, about to try again
C12_Witness ==
  /\ pc = "loopMQTT"
  /\ ~session
  /\ wifi = "Up"
  /\ HandshakeFailed(emit)

(***************************************************************************)
(* C13: the connectivity retry blocks the iteration.  loop() gets past     *)
(* connectToMQTT only with the session connected, the timed measurement,   *)
(* the display refresh, the heartbeat and the button handling run only at  *)
(* their positions after it, and while the device is in connectToMQTT with *)
(* no session none of the four runs: no timer is rearmed, no sensor is     *)
(* read, nothing is drawn or published and the button is not looked at.    *)
(***************************************************************************)
C13_RetryStallsPeriodicWork ==
  /\ [][ (pc = "loopMQTT" /\ pc' # "loopMQTT")
         => (session /\ pc' = "mqttLoop") ]_vars
  /\ [][ (pc # "mqttLoop" /\ pc' = "mqttLoop")
         => (pc = "loopMQTT" /\ session) ]_vars
  /\ [][ /\ (timedAt' # timedAt /\ timedAt' # -1) => pc = "measure"
         /\ At(emit', "display") # {} => pc = "display"
         /\ (lastHeartbeat' # lastHeartbeat /\ pc' # "setup")
              => pc = "heartbeat"
         /\ At(emit', "button") # {} => pc = "button" ]_vars
  /\ [][ (pc \in {"setupMQTT", "loopMQTT"} /\ ~session /\ ~session')
         => /\ lastMeasurement' = lastMeasurement
            /\ lastDisplayUpdate' = lastDisplayUpdate
            /\ lastHeartbeat' = lastHeartbeat
            /\ timedAt' = timedAt
            /\ lastReading' = lastReading
            /\ At(emit', "read") = {}
            /\ At(emit', "display") = {}
            /\ At(emit', "publish") = {}
            /\ At(emit', "button") = {} ]_vars

\* loop() is held in connectToMQTT by a failed handshake while the
\* measurement and the display refresh are overdue
C13_Witness ==
  /\ pc = "loopMQTT"
  /\ ~session
  /\ \E i \in At(emit, "connect") : ~emit[i].ok
  /\ now - lastMeasurement >= Ticks(60000)
  /\ now - lastDisplayUpdate >= Ticks(1000)

(***************************************************************************)
(* C14: an inbound message other than the commands measure_now and restart *)
(* has no effect: a message on the config topic, a commands message with   *)
(* another command or none, or a payload that is not JSON leaves           *)
(* lastReading, the timers, the reentrancy flag, the link and the session  *)
(* unchanged, and its step reads no sensor and publishes nothing.          *)
(***************************************************************************)
OtherReceived(events) ==
  /\ At(events, "recv") # {}
  /\ ~MeasureNowReceived(events)
  /\ ~RestartReceived(events)

C15_MeasurementPeriodHonoured ==
  [][ (timedAt # -1 /\ timedAt' # -1 /\ timedAt' # timedAt)
      => timedAt' - timedAt >= Ticks(60000) ]_vars

(***************************************************************************)
(* C16: the reentrancy flag is released on every path: it is false at the  *)
(* start of every iteration and whenever takeMeasurement has returned      *)
(* (valid or invalid reading, connected or not), so a measurement request  *)
(* by the timer, the button or the measure_now command is never dropped by *)
(* the guard: its step reads the sensors.                                  *)
(***************************************************************************)
C16_FlagReleasedOnEveryPath ==
  /\ [](~measurementInProgress)
  /\ [][ ( \/ /\ pc = "measure"
               /\ pc' = "display"
               /\ Due(currentTime, lastMeasurement, MEASUREMENT_INTERVAL)
            \/ At(emit', "button") # {}
            \/ MeasureNowReceived(emit') )
         => /\ Cardinality(At(emit', "read")) = 1
            /\ Cardinality(At(emit', "measured")) = 1 ]_vars

\* the button started a measurement that failed validation while the
\* session was down, and the flag is clear again
C16_Witness ==
  /\ ~measurementInProgress
  /\ ~session
  /\ At(emit, "button") # {}
  /\ \E j \in At(emit, "measured") : ~emit[j].reading.isValid

(***************************************************************************)
(* C17: lastReading is always either its boot value (isValid = false) or a *)
(* reading with isValid = true and infraredTemp within [20, 50] degC; once *)
(* a valid reading is recorded isValid does not return to false before a   *)
(* restart.                                                                *)
(***************************************************************************)
C17_LastReadingBootOrValid ==
  /\ [](\/ lastReading = [infraredTemp |-> 0, contactTemp |-> 0,
                          isValid |-> FALSE, measurementType |-> ""]
        \/ /\ lastReading.isValid
           /\ lastReading.infraredTemp >= 200
           /\ lastReading.infraredTemp <= 500)
  /\ [][ (lastReading.isValid /\ ~lastReading'.isValid)
         => (pc' = "setup" /\ At(emit', "restart") # {}) ]_vars

\* a reading at the lower end of the range is the last reading and a
\* measurement that failed validation has come after it
C17_Witness ==
  /\ lastReading.isValid
  /\ lastReading.infraredTemp = TEMP_MIN
  /\ \E i \in At(emit, "read") : emit[i].infraredTemp > TEMP_MAX

(***************************************************************************)
(* C18: within one valid measurement the order of effects is fixed:        *)
(* lastReading is replaced by the reading first, then the fever alert (if  *)
(* any) is sent, then the reading message is published; a measurement      *)
(* produces at most one alert message and at most one reading message, and *)
(* no alert message comes after the reading message.                       *)
(***************************************************************************)
C18_OrderOfEffects ==
  /\ Cardinality(Published(emit, "alerts")) <= 1
  /\ Cardinality(Published(emit, "temperature/reading")) <= 1
  /\ \A a \in Published(emit, "alerts") :
       \A r \in Published(emit, "temperature/reading") : a < r
  /\ \A j \in At(emit, "measured") :
       emit[j].reading.isValid =>
         /\ lastReading = emit[j].reading
         /\ Cardinality(At(emit, "store")) = 1
         /\ \A i \in At(emit, "store") :
              /\ j < i
              /\ emit[i].reading = emit[j].reading
              /\ \A k \in At(emit, "publish") \cup At(emit, "tone") : i < k
  /\ \A j \in At(emit, "measured") :
       ~emit[j].reading.isValid => At(emit, "store") = {}

\* a measurement has sent an alert and then published its reading
C18_Witness ==
  /\ Published(emit, "alerts") # {}
  /\ Published(emit, "temperature/reading") # {}

(***************************************************************************)
(* C20: the status field of every status or heartbeat message published is *)
(* "online": sensorsReady is true in every state after setupSensors, also  *)
(* when the infrared sensor failed to initialise, so "error" is never      *)
(* emitted.                                                                *)
(***************************************************************************)
C20_StatusAlwaysOnline ==
  /\ \A i \in Published(emit, "status") : emit[i].body.status = "online"
  /\ \A i \in Published(emit, "status") : emit[i].body.status # "error"
  /\ pc # "setup" => sensorsReady

\* setupSensors has run with the infrared sensor not found
C20_Witness ==
  /\ pc = "setupWiFi"
  /\ sensorsReady
  /\ \E i \in At(emit, "mlx.begin") : ~emit[i].found

(***************************************************************************)
(* C19: the timer comparisons are correct across the wrap-around of the    *)
(* millisecond clock: each timer runs in an iteration exactly when the     *)
(* true time from its recorded last run to the clock sample of the         *)
(* iteration is at least its period, also when the clock wrapped past 0    *)
(* between the two samples.                                                *)
(***************************************************************************)
\* the time a clock sample stands for, in a run that stays within half a
\* clock period of one wrap
Unwrapped(sample) == IF sample < WORD \div 2 THEN sample + WORD ELSE sample

Elapsed(last) == Unwrapped(currentTime) - Unwrapped(last)

C19_TimersCorrectAcrossWrap ==
  /\ [][ (pc = "measure" /\ pc' = "display")
         => IF Elapsed(lastMeasurement) >= Ticks(60000)
            THEN lastMeasurement' = currentTime /\ At(emit', "read") # {}
            ELSE lastMeasurement' = lastMeasurement /\ emit' = << >> ]_vars
  /\ [][ (pc = "display" /\ pc' = "heartbeat")
         => IF Elapsed(lastDisplayUpdate) >= Ticks(1000)
            THEN lastDisplayUpdate' = currentTime /\ At(emit', "display") # {}
            ELSE lastDisplayUpdate' = lastDisplayUpdate /\ emit' = << >> ]_vars
  /\ [][ (pc = "heartbeat" /\ pc' = "button")
         => IF Elapsed(lastHeartbeat) >= Ticks(30000)
            THEN lastHeartbeat' = currentTime
            ELSE lastHeartbeat' = lastHeartbeat /\ emit' = << >> ]_vars

\* the timed measurement has run on a clock sample taken after the wrap,
\* in an iteration whose heartbeat last ran before the wrap
C19_Witness ==
  /\ pc = "display"
  /\ At(emit, "read") # {}
  /\ now >= WORD
  /\ lastMeasurement = currentTime
  /\ currentTime < Ticks(1000)
  /\ lastHeartbeat > WORD \div 2

====
